---------------------------- MODULE Spec2Model ----------------------------
(***************************************************************************)
(* A model of database.py, the persistence layer of the calendar           *)
(* application: the events table, the tags table, the schema migration,    *)
(* the date query, the per-day tag-hour aggregation and the bulk import.   *)
(*                                                                         *)
(* Representation.                                                         *)
(*  - A calendar date 'YYYY-MM-DD' is a day number; day n is the date      *)
(*    2024-05-31 + n days, so day 1 is 2024-06-01.  ISO dates are          *)
(*    zero-padded and fixed-width, so their TEXT order is the order of     *)
(*    the day numbers.                                                     *)
(*  - A datetime text 'YYYY-MM-DD HH:MM:SS' is [day, sec] with sec the     *)
(*    second of the day (0..86399).  SQLite compares TEXT bytewise, which  *)
(*    on this fixed-width format is the lexicographic order of (day, sec). *)
(*  - Python's None and SQL NULL are the value None below (NoneDT where a   *)
(*    datetime is expected).                                               *)
(*  - A datetime.timedelta is [sec, us], normalised as Python does         *)
(*    (0 <= us < 10^6).                                                    *)
(*  - A Python float is an IEEE 754 binary64 number, kept exactly: its     *)
(*    sign and its magnitude as a whole number of units of 2^-90, the      *)
(*    magnitude a little-endian sequence of limbs in base 2^10.  Division  *)
(*    and addition round to 53 significant bits, ties to even.             *)
(*  - created_at of a row inserted by this module is CURRENT_TIMESTAMP.    *)
(*  - The database file is what is durable: a process that stops loses     *)
(*    its open transaction and nothing else.                               *)
(***************************************************************************)
EXTENDS Integers, Sequences, FiniteSets, TLC

VARIABLES
    schema,     \* the tables of the file: [events, events_new, tags]
    legacy,     \* rows of the legacy events table (empty once migrated)
    events,     \* rows of the events table
    eventSeq,   \* sqlite_sequence of events (AUTOINCREMENT)
    tags,       \* rows of the tags table
    tagSeq,     \* sqlite_sequence of tags (AUTOINCREMENT)
    imported,   \* the running process has imported the module: init_db returned
    locked,     \* a connection left open by a failed call holds the write lock
    last        \* the last call: its name, arguments and outcome

vars == <<schema, legacy, events, eventSeq, tags, tagSeq, imported, locked, last>>

None == "<None>"

CURRENT_TIMESTAMP == "<now>"

(***************************************************************************)
(* Bounds of the model.                                                    *)
(***************************************************************************)
MaxTagId == 3

MaxEventId == 2

(***************************************************************************)
(* Helpers.                                                                *)
(***************************************************************************)
SetMax(S) == CHOOSE x \in S : \A y \in S : y <= x

\* Python truthiness of a string-or-None value: None and '' are falsy
Truthy(v) == v # None /\ v # ""

\* In a datetime position: None, and the empty string ''
NoneDT == [none |-> TRUE]

EmptyDT == [empty |-> TRUE]

TruthyDT(v) == v # NoneDT /\ v # EmptyDT

\* TEXT comparison of two datetime strings
TextLeq(a, b) == a.day < b.day \/ (a.day = b.day /\ a.sec <= b.sec)

TextLt(a, b) == a.day < b.day \/ (a.day = b.day /\ a.sec < b.sec)

\* SQL DATE(text)
DATE(dt) == dt.day

\* Row ids of a table
Ids(table) == {r.id : r \in table}

Row(table, id) == CHOOSE r \in table : r.id = id

(***************************************************************************)
(* Transactions.  The connection is opened with the sqlite3 module's       *)
(* default isolation level: a transaction begins before the first          *)
(* INSERT/UPDATE/DELETE and nothing is durable until conn.commit().        *)
(* snaps is the sequence of database snapshots <<before, after statement   *)
(* 1, ...>>, done the number of statements executed, committed whether     *)
(* conn.commit() returned.  A connection closed (or a process stopped)     *)
(* before the commit rolls back.                                           *)
(***************************************************************************)
PersistedAutocommit(snaps, done, committed) == snaps[done + 1]

Persisted(snaps, done, committed) ==
    IF committed THEN snaps[Len(snaps)] ELSE snaps[1]

(***************************************************************************)
(* Tags.                                                                   *)
(***************************************************************************)
Tag(id, name, color, order_index) ==
    [id |-> id, name |-> name, color |-> color, order_index |-> order_index]

\* The UNIQUE constraint on tags.name: some row other than exceptId has the name
NameTaken(table, name, exceptId) ==
    \E t \in table : t.name = name /\ t.id # exceptId

\* INSERT INTO tags: [ok, table]; ok is FALSE on sqlite3.IntegrityError
\* (NOT NULL or UNIQUE), and the table is then as it was
InsertTag(table, seq, name, color, order_index) ==
    IF name = None \/ color = None \/ NameTaken(table, name, 0)
    THEN [ok |-> FALSE, table |-> table]
    ELSE [ok |-> TRUE,
          table |-> table \cup {Tag(seq + 1, name, color, order_index)}]

\* Python's (max_order or 0): None and 0 are falsy
PyOrZero(isNone, v) == IF isNone \/ v = 0 THEN 0 ELSE v

\* SELECT MAX(order_index) FROM tags, then (max_order or 0) + 1
NextOrderIndex(table) ==
    LET max_order == IF table = {} THEN 0
                     ELSE SetMax({t.order_index : t \in table})
    IN  PyOrZero(table = {}, max_order) + 1

DefaultTags ==
    <<[name |-> "Work", color |-> "#007bff", order |-> 1],
      [name |-> "Personal", color |-> "#28a745", order |-> 2],
      [name |-> "Social", color |-> "#ffc107", order |-> 3],
      [name |-> "Important", color |-> "#dc3545", order |-> 4]>>

\* Insert the records of a sequence one by one, stopping at the first
\* insert that fails
RECURSIVE InsertAll(_, _, _)
InsertAll(table, seq, recs) ==
    IF recs = <<>> THEN [ok |-> TRUE, table |-> table]
    ELSE LET r == Head(recs)
             t == InsertTag(table, seq, r.name, r.color, r.order)
         IN  IF t.ok THEN InsertAll(t.table, seq + 1, Tail(recs)) ELSE t

\* _create_default_tags(cursor, conn), on the empty table it is called with
CreateDefaultTags == InsertAll({}, 0, DefaultTags).table

\* tags.json: absent, or a list of {name, color, order?}; order defaults to 0
JsonTag(name, color, hasOrder, order) ==
    [name |-> name, color |-> color, order |-> IF hasOrder THEN order ELSE 0]

\* init_default_tags(conn): the seeded tags table.  A failed migration from
\* tags.json is rolled back and the defaults are created instead.
init_default_tags(json) ==
    IF json.exists
    THEN LET t == InsertAll({}, 0, json.tags)
         IN  IF t.ok THEN t.table ELSE CreateDefaultTags
    ELSE CreateDefaultTags

\* get_all_tags: SELECT * FROM tags ORDER BY order_index (ties in rowid order)
RECURSIVE SortTags(_)
SortTags(table) ==
    IF table = {} THEN <<>>
    ELSE LET t == CHOOSE x \in table : \A y \in table :
                      x.order_index < y.order_index
                      \/ (x.order_index = y.order_index /\ x.id <= y.id)
         IN  <<t>> \o SortTags(table \ {t})

get_all_tags(table) == SortTags(table)


\* reorder_tags: UPDATE tags SET order_index = index + 1 WHERE id = tag_id,
\* for each (index, tag_id) of enumerate(tag_ids); unknown ids update no row
RECURSIVE ReorderFrom(_, _, _)
ReorderFrom(table, tag_ids, index) ==
    IF tag_ids = <<>> THEN table
    ELSE ReorderFrom({IF t.id = Head(tag_ids)
                      THEN [t EXCEPT !.order_index = index + 1] ELSE t
                      : t \in table},
                     Tail(tag_ids), index + 1)

reorder_tags(table, tag_ids) == ReorderFrom(table, tag_ids, 0)

(***************************************************************************)
(* Events.                                                                 *)
(***************************************************************************)
Event(id, start, end, title, description, tag, created_at) ==
    [id |-> id, start_datetime |-> start, end_datetime |-> end,
     title |-> title, description |-> description, tag |-> tag,
     created_at |-> created_at]

DT(day, sec) == [day |-> day, sec |-> sec]

\* The NOT NULL columns of events
EventRowValid(start, end, title) ==
    start # NoneDT /\ end # NoneDT /\ title # None

\* INSERT INTO events (start_datetime, end_datetime, title, description, tag)
InsertEvent(table, seq, start, end, title, description, tag) ==
    IF EventRowValid(start, end, title)
    THEN [ok |-> TRUE,
          table |-> table \cup {Event(seq + 1, start, end, title, description,
                                      tag, CURRENT_TIMESTAMP)}]
    ELSE [ok |-> FALSE, table |-> table]

\* UPDATE events SET tag = new WHERE tag = old (NULL equals nothing in SQL)
RetagEvents(table, old, new) ==
    {IF e.tag = old /\ old # None THEN [e EXCEPT !.tag = new] ELSE e : e \in table}

\* SELECT COUNT(*) FROM events WHERE tag = ?
CountTagged(table, name) ==
    Cardinality({e \in table : e.tag = name /\ name # None})

\* Rows in rowid order
RECURSIVE SortById(_)
SortById(table) ==
    IF table = {} THEN <<>>
    ELSE LET e == CHOOSE x \in table : \A y \in table : x.id <= y.id
         IN  <<e>> \o SortById(table \ {e})

\* get_events_by_tag: SELECT * FROM events WHERE tag = ?
get_events_by_tag(table, tag_name) ==
    SortById({e \in table : e.tag = tag_name /\ tag_name # None})

(***************************************************************************)
(* get_events_by_date.                                                     *)
(***************************************************************************)
\* f"{date} 00:00:00" and f"{date} 23:59:59"
DateStartText(date) == DT(date, 0)

DateEndText(date) == DT(date, 86399)

\* The WHERE clause of get_events_by_date
OnDateStartOnly(e, date) == DATE(e.start_datetime) = date

OnDate(e, date) ==
    \/ /\ TextLeq(e.start_datetime, DateEndText(date))
       /\ TextLeq(DateStartText(date), e.end_datetime)
    \/ DATE(e.start_datetime) = date
    \/ DATE(e.end_datetime) = date

\* ORDER BY start_datetime (ties in rowid order)
RECURSIVE SortByStart(_)
SortByStart(table) ==
    IF table = {} THEN <<>>
    ELSE LET e == CHOOSE x \in table : \A y \in table :
                      TextLt(x.start_datetime, y.start_datetime)
                      \/ (x.start_datetime = y.start_datetime /\ x.id <= y.id)
         IN  <<e>> \o SortByStart(table \ {e})

get_events_by_date(table, date) ==
    SortByStart({e \in table : OnDate(e, date)})

(***************************************************************************)
(* Whole numbers of any size, for the arithmetic of floats: a sequence of  *)
(* limbs in base 2^10, least significant first, without leading zero       *)
(* limbs; zero is the empty sequence.                                      *)
(***************************************************************************)
Base == 2^10

RECURSIVE BigNorm(_)
BigNorm(x) ==
    IF x # <<>> /\ x[Len(x)] = 0 THEN BigNorm(SubSeq(x, 1, Len(x) - 1)) ELSE x

RECURSIVE BigFromInt(_)
BigFromInt(n) ==
    IF n = 0 THEN <<>> ELSE <<n % Base>> \o BigFromInt(n \div Base)

Limb(x, i) == IF i <= Len(x) THEN x[i] ELSE 0

RECURSIVE BigAddFrom(_, _, _, _)
BigAddFrom(a, b, i, carry) ==
    IF i > Len(a) /\ i > Len(b)
    THEN IF carry = 0 THEN <<>> ELSE <<carry>>
    ELSE LET s == Limb(a, i) + Limb(b, i) + carry
         IN  <<s % Base>> \o BigAddFrom(a, b, i + 1, s \div Base)

BigAdd(a, b) == BigAddFrom(a, b, 1, 0)

\* a - b, for a >= b
RECURSIVE BigSubFrom(_, _, _, _)
BigSubFrom(a, b, i, borrow) ==
    IF i > Len(a) THEN <<>>
    ELSE LET s == Limb(a, i) - Limb(b, i) - borrow
         IN  <<s % Base>> \o BigSubFrom(a, b, i + 1, IF s < 0 THEN 1 ELSE 0)

BigSub(a, b) == BigNorm(BigSubFrom(a, b, 1, 0))

RECURSIVE BigLessFrom(_, _, _)
BigLessFrom(a, b, i) ==
    IF i = 0 THEN FALSE
    ELSE IF a[i] # b[i] THEN a[i] < b[i] ELSE BigLessFrom(a, b, i - 1)

BigLess(a, b) ==
    IF Len(a) # Len(b) THEN Len(a) < Len(b) ELSE BigLessFrom(a, b, Len(a))

\* a * c, for 0 <= c < 2^20
RECURSIVE BigMulFrom(_, _, _, _)
BigMulFrom(a, c, i, carry) ==
    IF i > Len(a) THEN BigFromInt(carry)
    ELSE LET p == a[i] * c + carry
         IN  <<p % Base>> \o BigMulFrom(a, c, i + 1, p \div Base)

BigMulSmall(a, c) == BigNorm(BigMulFrom(a, c, 1, 0))

\* Quotient and remainder of a by d, for 0 < d < 2^20
RECURSIVE BigDivFrom(_, _, _, _)
BigDivFrom(a, d, i, r) ==
    IF i = 0 THEN [q |-> <<>>, r |-> r]
    ELSE LET cur == r * Base + a[i]
             rest == BigDivFrom(a, d, i - 1, cur % d)
         IN  [q |-> Append(rest.q, cur \div d), r |-> rest.r]

BigDivSmall(a, d) ==
    LET x == BigDivFrom(a, d, Len(a), 0) IN [q |-> BigNorm(x.q), r |-> x.r]

\* Number of bits of x; bit j of x (bit 0 the lowest); whether the bits
\* below bit j are all zero
BitLen(x) ==
    IF x = <<>> THEN 0
    ELSE 10 * (Len(x) - 1)
         + (CHOOSE k \in 1..10 : 2^(k - 1) <= x[Len(x)] /\ x[Len(x)] < 2^k)

Bit(x, j) == (Limb(x, (j \div 10) + 1) \div 2^(j % 10)) % 2

LowZero(x, j) ==
    /\ \A i \in 1..(j \div 10) : Limb(x, i) = 0
    /\ Limb(x, (j \div 10) + 1) % 2^(j % 10) = 0

\* x with the bits below bit p cleared; 2^p
Truncate(x, p) ==
    [i \in 1..Len(x) |->
        IF i <= p \div 10 THEN 0
        ELSE IF i = (p \div 10) + 1 THEN x[i] - (x[i] % 2^(p % 10))
        ELSE x[i]]

UnitAt(p) ==
    [i \in 1..((p \div 10) + 1) |-> IF i <= p \div 10 THEN 0 ELSE 2^(p % 10)]

(***************************************************************************)
(* Floats.  [neg, mag] is the binary64 number of magnitude mag * 2^-90     *)
(* (zero is positive).  The floats of this module are zero or between      *)
(* 2^-36 and 2^20 in magnitude, so every one of them is a whole number of  *)
(* units and every quotient below has more than 53 bits before it is       *)
(* rounded.                                                                *)
(***************************************************************************)
FracLimbs == 90 \div 10

\* x * 2^90
Scale(x) == IF x = <<>> THEN <<>> ELSE [i \in 1..FracLimbs |-> 0] \o x

\* Round x (followed by a non-zero tail when sticky) to 53 significant
\* bits, to nearest, ties to even
RoundSig(x, sticky) ==
    LET p == BitLen(x) - 53
    IN  IF p <= 0 THEN x
        ELSE LET up == /\ Bit(x, p - 1) = 1
                       /\ (sticky \/ ~LowZero(x, p - 1) \/ Bit(x, p) = 1)
             IN  IF up THEN BigAdd(Truncate(x, p), UnitAt(p))
                 ELSE Truncate(x, p)

Dbl(neg, mag) == [neg |-> neg /\ mag # <<>>, mag |-> mag]

\* The float of a small whole number n >= 0
DblOfInt(n) == Dbl(FALSE, Scale(BigFromInt(n)))

\* x / d for a float x and the float of a whole number 0 < d < 2^20
DblDivSmall(x, d) ==
    LET r == BigDivSmall(x.mag, d) IN Dbl(x.neg, RoundSig(r.q, r.r # 0))

\* a + b
DblAdd(a, b) ==
    IF a.neg = b.neg THEN Dbl(a.neg, RoundSig(BigAdd(a.mag, b.mag), FALSE))
    ELSE IF BigLess(a.mag, b.mag)
    THEN Dbl(b.neg, RoundSig(BigSub(b.mag, a.mag), FALSE))
    ELSE Dbl(a.neg, RoundSig(BigSub(a.mag, b.mag), FALSE))

\* timedelta.total_seconds(): the whole number of microseconds / 10**6
total_seconds(td) ==
    LET neg == td.sec < 0
        micros == IF neg
                  THEN BigSub(BigMulSmall(BigFromInt(-td.sec), 1000000),
                              BigFromInt(td.us))
                  ELSE BigAdd(BigMulSmall(BigFromInt(td.sec), 1000000),
                              BigFromInt(td.us))
        r == BigDivSmall(Scale(micros), 1000000)
    IN  Dbl(neg, RoundSig(r.q, r.r # 0))

\* duration_seconds / 3600.0
duration_hours(td) == DblDivSmall(total_seconds(td), 3600)

(***************************************************************************)
(* get_tag_hours_for_week.  A datetime is [day, sec, us]; a timedelta is   *)
(* [sec, us] with 0 <= us < 10^6.                                          *)
(***************************************************************************)
Inst(day, sec, us) == [day |-> day, sec |-> sec, us |-> us]

\* datetime.strptime(text, '%Y-%m-%d %H:%M:%S')
strptime(dt) == Inst(dt.day, dt.sec, 0)

InstLeq(a, b) ==
    \/ a.day < b.day
    \/ a.day = b.day /\ a.sec < b.sec
    \/ a.day = b.day /\ a.sec = b.sec /\ a.us <= b.us

InstMax(a, b) == IF InstLeq(a, b) THEN b ELSE a

InstMin(a, b) == IF InstLeq(a, b) THEN a ELSE b

\* a - b, a timedelta
InstSub(a, b) ==
    LET us == a.us - b.us
        sec == (a.day - b.day) * 86400 + (a.sec - b.sec)
    IN  [sec |-> sec + (us \div 1000000), us |-> us % 1000000]

\* datetime.combine(current_day, datetime.min.time()) and ... max.time()
day_start(day) == Inst(day, 0, 0)

day_end(day) == Inst(day, 86399, 999999)

\* WHERE start_datetime < end_date AND end_datetime > start_date: a datetime
\* text against a date text, which is a proper prefix of the datetime text
\* of its own day
TextLtDate(dt, date) == dt.day < date

DateLtText(date, dt) == date <= dt.day

InWeek(e, start_date, end_date) ==
    /\ TextLtDate(e.start_datetime, end_date)
    /\ DateLtText(start_date, e.end_datetime)

\* event['tag'] if event['tag'] else 'Untagged'
TagKey(e) == IF Truthy(e.tag) THEN e.tag ELSE "Untagged"

\* Whether the event overlaps the day, and its duration clipped to the day
OverlapsDay(e, day) ==
    /\ InstLeq(strptime(e.start_datetime), day_end(day))
    /\ InstLeq(day_start(day), strptime(e.end_datetime))

ClippedDuration(e, day) ==
    InstSub(InstMin(strptime(e.end_datetime), day_end(day)),
            InstMax(strptime(e.start_datetime), day_start(day)))

\* result[date_str][tag] = 0, then result[date_str][tag] += duration_hours
\* for the events es of one tag on the day, in the order of the query
SumClippedOverwrite(es, day) ==
    IF es = <<>> THEN DblOfInt(0)
    ELSE duration_hours(ClippedDuration(es[Len(es)], day))

RECURSIVE SumClipped(_, _)
SumClipped(es, day) ==
    IF es = <<>> THEN DblOfInt(0)
    ELSE DblAdd(SumClipped(SubSeq(es, 1, Len(es) - 1), day),
                duration_hours(ClippedDuration(es[Len(es)], day)))

\* result[date_str][tag], for date_str in [start_date, end_date); the
\* events are fetched ORDER BY start_datetime
get_tag_hours_for_week(table, start_date, end_date) ==
    LET selected == SortByStart({e \in table : InWeek(e, start_date, end_date)})
    IN  [day \in start_date .. (end_date - 1) |->
            LET on == SelectSeq(selected, LAMBDA e : OverlapsDay(e, day))
            IN  [k \in {TagKey(on[i]) : i \in 1..Len(on)} |->
                    SumClipped(SelectSeq(on, LAMBDA e : TagKey(e) = k), day)]]

(***************************************************************************)
(* update_tag and delete_tag as the statements they execute.  Each returns *)
(* the outcome and the snapshots [tags, events] before and after each      *)
(* statement.  lk: another connection holds the write lock, and the first  *)
(* writing statement raises sqlite3.OperationalError (database is locked)  *)
(* once the busy timeout has passed.                                       *)
(***************************************************************************)
DB(t, e) == [tags |-> t, events |-> e]

update_tag_run(lk, t, e, tag_id, name, color) ==
    IF tag_id \notin Ids(t)
    THEN [raised |-> "NotFound", snaps |-> <<DB(t, e)>>]
    ELSE IF lk
    THEN [raised |-> "OperationalError", snaps |-> <<DB(t, e)>>]
    ELSE LET old_name == Row(t, tag_id).name
             t1 == {IF x.id = tag_id
                    THEN [x EXCEPT !.name = name, !.color = color] ELSE x
                    : x \in t}
         IN  IF name = None \/ color = None \/ NameTaken(t, name, tag_id)
             THEN [raised |-> "DuplicateTag", snaps |-> <<DB(t, e)>>]
             ELSE IF old_name # name
             THEN [raised |-> "",
                   snaps |-> <<DB(t, e), DB(t1, e),
                               DB(t1, RetagEvents(e, old_name, name))>>]
             ELSE [raised |-> "", snaps |-> <<DB(t, e), DB(t1, e)>>]

delete_tag_run(lk, t, e, tag_id) ==
    IF tag_id \notin Ids(t)
    THEN [raised |-> "", success |-> FALSE, event_count |-> 0,
          snaps |-> <<DB(t, e)>>]
    ELSE IF lk
    THEN [raised |-> "OperationalError", success |-> FALSE, event_count |-> 0,
          snaps |-> <<DB(t, e)>>]
    ELSE LET tag_name == Row(t, tag_id).name
             event_count == CountTagged(e, tag_name)
             t1 == {x \in t : x.id # tag_id}
         IN  IF event_count > 0
             THEN [raised |-> "", success |-> TRUE, event_count |-> event_count,
                   snaps |-> <<DB(t, e),
                               DB(t, RetagEvents(e, tag_name, None)),
                               DB(t1, RetagEvents(e, tag_name, None))>>]
             ELSE [raised |-> "", success |-> TRUE, event_count |-> event_count,
                   snaps |-> <<DB(t, e), DB(t1, e)>>]

(***************************************************************************)
(* bulk_add_events.  A record of the batch is a dict; a key it does not    *)
(* hold is Absent (AbsentDT for a datetime), and dict.get gives the        *)
(* default for it.                                                         *)
(***************************************************************************)
Absent == "<absent>"

AbsentDT == [absent |-> TRUE]

\* dict.get(key, default), for a string value and for a datetime value
DictGet(v, default) == IF v = Absent THEN default ELSE v

DictGetDT(v, default) == IF v = AbsentDT THEN default ELSE v

\* if start_datetime and end_datetime:
BulkRecordValidEndOnly(rec) == TruthyDT(DictGetDT(rec.end_datetime, NoneDT))

BulkRecordValid(rec) ==
    /\ TruthyDT(DictGetDT(rec.start_datetime, NoneDT))
    /\ TruthyDT(DictGetDT(rec.end_datetime, NoneDT))

\* The loop of bulk_add_events from record i on: the exception raised (if
\* any), imported_count and the snapshots of the events table and its
\* sequence before and after each INSERT
RECURSIVE BulkLoop(_, _, _, _, _, _, _)
BulkLoop(lk, batch, i, tag, table, seq, acc) ==
    IF i > Len(batch)
    THEN [raised |-> "", imported_count |-> Len(acc.snaps) - 1, snaps |-> acc.snaps]
    ELSE LET rec == batch[i]
             title == DictGet(rec.title, "(no title)")
             description == DictGet(rec.description, "")
             start_datetime == DictGetDT(rec.start_datetime, NoneDT)
             end_datetime == DictGetDT(rec.end_datetime, NoneDT)
             r == InsertEvent(table, seq, start_datetime, end_datetime,
                              title, description, tag)
         IN  IF BulkRecordValid(rec)
             THEN IF lk
                  THEN [raised |-> "OperationalError",
                        imported_count |-> Len(acc.snaps) - 1,
                        snaps |-> acc.snaps]
                  ELSE IF r.ok
                  THEN BulkLoop(lk, batch, i + 1, tag, r.table, seq + 1,
                                [snaps |-> Append(acc.snaps,
                                     [events |-> r.table, seq |-> seq + 1])])
                  ELSE [raised |-> "IntegrityError",
                        imported_count |-> Len(acc.snaps) - 1,
                        snaps |-> acc.snaps]
             ELSE BulkLoop(lk, batch, i + 1, tag, table, seq, acc)

bulk_add_events_run(lk, batch, tag, table, seq) ==
    BulkLoop(lk, batch, 1, tag, table, seq,
             [snaps |-> <<[events |-> table, seq |-> seq]>>])

(***************************************************************************)
(* migrate_schema.  A legacy row is [id, date, time, title, description,   *)
(* created_at]; its time is NoneT (NULL), EmptyT ('') or HM(m), the text   *)
(* 'HH:MM' of minute m of the day.                                         *)
(***************************************************************************)
NoneT == [none |-> TRUE]

EmptyT == [empty |-> TRUE]

HM(m) == [hm |-> m]

\* start_dt + timedelta(hours=1), formatted back with strftime
PlusOneHourSameDay(dt) == DT(dt.day, dt.sec + 3600)

PlusOneHour(dt) ==
    IF dt.sec + 3600 >= 86400
    THEN DT(dt.day + 1, dt.sec + 3600 - 86400)
    ELSE DT(dt.day, dt.sec + 3600)

MigrateRow(r) ==
    IF r.time # NoneT /\ r.time # EmptyT
    THEN Event(r.id, DT(r.date, r.time.hm * 60),
               PlusOneHour(DT(r.date, r.time.hm * 60)),
               r.title, r.description, None, r.created_at)
    ELSE Event(r.id, DT(r.date, 32400), DT(r.date, 61200),
               r.title, r.description, None, r.created_at)

MigrateRows(rows) == {MigrateRow(r) : r \in rows}

(***************************************************************************)
(* The file.  schema.events is "absent", "legacy" (the columns date and    *)
(* time) or "new"; schema.events_new and schema.tags tell whether those    *)
(* tables exist.  A store is the whole durable content.                    *)
(***************************************************************************)
Schema(ev, evnew, tg) == [events |-> ev, events_new |-> evnew, tags |-> tg]

Store(s, l, e, es, t, ts) ==
    [schema |-> s, legacy |-> l, events |-> e, eventSeq |-> es,
     tags |-> t, tagSeq |-> ts]

EmptyFile == Store(Schema("absent", FALSE, FALSE), {}, {}, 0, {}, 0)

(***************************************************************************)
(* migrate_schema and init_db as the durable states they go through.  A    *)
(* CREATE, DROP or ALTER TABLE outside a transaction is durable at once;   *)
(* the first INSERT opens a transaction, which lasts to conn.commit().     *)
(* With rows to copy, the copy, the DROP and the RENAME are one            *)
(* transaction; with none, the DROP and the RENAME are durable one by one. *)
(***************************************************************************)
migrate_schema(d) ==
    IF d.schema.events_new
    THEN [raised |-> "OperationalError", snaps |-> <<>>]
    ELSE LET created == [d EXCEPT !.schema.events_new = TRUE]
             dropped == [created EXCEPT !.schema.events = "absent"]
             swapped == [d EXCEPT !.schema.events = "new",
                                  !.legacy = {},
                                  !.events = MigrateRows(d.legacy),
                                  !.eventSeq = IF d.legacy = {} THEN 0
                                               ELSE SetMax(Ids(d.legacy))]
         IN  [raised |-> "",
              snaps |-> IF d.legacy = {} THEN <<created, dropped, swapped>>
                        ELSE <<created, swapped>>]

init_db_run(d, json) ==
    LET ev == IF d.schema.events = "absent"
              THEN [raised |-> "",
                    snaps |-> <<[d EXCEPT !.schema.events = "new",
                                          !.events = {}, !.eventSeq = 0]>>]
              ELSE IF d.schema.events = "legacy" THEN migrate_schema(d)
              ELSE [raised |-> "", snaps |-> <<>>]
        d1 == IF ev.snaps = <<>> THEN d ELSE ev.snaps[Len(ev.snaps)]
        tg == IF d1.schema.tags THEN <<>>
              ELSE <<[d1 EXCEPT !.schema.tags = TRUE,
                                !.tags = {}, !.tagSeq = 0],
                     [d1 EXCEPT !.schema.tags = TRUE,
                                !.tags = init_default_tags(json),
                                !.tagSeq = Cardinality(init_default_tags(json))]>>
    IN  IF ev.raised # "" THEN [raised |-> ev.raised, snaps |-> <<d>>]
        ELSE [raised |-> "", snaps |-> <<d>> \o ev.snaps \o tg]

\* The module imported by a process that finds no table in the file
FreshInit(json) ==
    LET r == init_db_run(EmptyFile, json)
        d == r.snaps[Len(r.snaps)]
    IN  /\ schema = d.schema
        /\ legacy = d.legacy
        /\ events = d.events
        /\ eventSeq = d.eventSeq
        /\ tags = d.tags
        /\ tagSeq = d.tagSeq
        /\ imported = TRUE
        /\ locked = FALSE
        /\ last = [op |-> "init_db", raised |-> "", crashed |-> FALSE,
                   migrated |-> FALSE]

(***************************************************************************)
(* The calls.  Every function but init_db is called in a process that has  *)
(* imported the module, so both tables exist.  A call that raises          *)
(* OperationalError under the write lock changes nothing.                  *)
(***************************************************************************)
AddTag(name, color, hasOrder, order) ==
    LET order_index == IF hasOrder THEN order ELSE NextOrderIndex(tags)
        r == InsertTag(tags, tagSeq, name, color, order_index)
        raised == IF locked THEN "OperationalError"
                  ELSE IF r.ok THEN "" ELSE "DuplicateTag"
    IN  /\ imported
        /\ raised = "" => tagSeq < MaxTagId
        /\ tags' = IF raised = "" THEN r.table ELSE tags
        /\ tagSeq' = IF raised = "" THEN tagSeq + 1 ELSE tagSeq
        /\ last' = [op |-> "add_tag", name |-> name, hasOrder |-> hasOrder,
                    raised |-> raised,
                    id |-> IF raised = "" THEN tagSeq + 1 ELSE 0]
        /\ UNCHANGED <<schema, legacy, events, eventSeq, imported, locked>>

\* crash: the process stops after `done` statements, before conn.commit()
UpdateTag(tag_id, name, color, crash, done) ==
    LET r == update_tag_run(locked, tags, events, tag_id, name, color)
        n == Len(r.snaps) - 1
        p == Persisted(r.snaps, IF crash THEN done ELSE n, ~crash /\ r.raised = "")
    IN  /\ imported
        /\ crash => (r.raised = "" /\ 1 <= done /\ done <= n)
        /\ ~crash => done = 0
        /\ tags' = p.tags
        /\ events' = p.events
        /\ imported' = ~crash
        /\ last' = [op |-> "update_tag", id |-> tag_id, name |-> name,
                    color |-> color, raised |-> r.raised, crashed |-> crash]
        /\ UNCHANGED <<schema, legacy, eventSeq, tagSeq, locked>>

DeleteTag(tag_id, crash, done) ==
    LET r == delete_tag_run(locked, tags, events, tag_id)
        n == Len(r.snaps) - 1
        p == Persisted(r.snaps, IF crash THEN done ELSE n, ~crash /\ r.raised = "")
    IN  /\ imported
        /\ crash => (r.success /\ 1 <= done /\ done <= n)
        /\ ~crash => done = 0
        /\ tags' = p.tags
        /\ events' = p.events
        /\ imported' = ~crash
        /\ last' = [op |-> "delete_tag", id |-> tag_id, crashed |-> crash,
                    raised |-> r.raised, success |-> r.success,
                    event_count |-> r.event_count]
        /\ UNCHANGED <<schema, legacy, eventSeq, tagSeq, locked>>

\* With no id to update no statement runs, and the lock is not met
ReorderTags(tag_ids) ==
    LET raised == IF locked /\ tag_ids # <<>> THEN "OperationalError" ELSE ""
    IN  /\ imported
        /\ tags' = IF raised = "" THEN reorder_tags(tags, tag_ids) ELSE tags
        /\ last' = [op |-> "reorder_tags", tag_ids |-> tag_ids,
                    raised |-> raised]
        /\ UNCHANGED <<schema, legacy, events, eventSeq, tagSeq, imported,
                       locked>>

GetAllTags ==
    /\ imported
    /\ last' = [op |-> "get_all_tags", result |-> get_all_tags(tags)]
    /\ UNCHANGED <<schema, legacy, events, eventSeq, tags, tagSeq, imported,
                   locked>>

\* add_event has no except clause: when the INSERT raises IntegrityError
\* the connection is neither rolled back nor closed, and it keeps the write
\* lock of the transaction sqlite3 began until the collector frees it
AddEvent(start, end, title, description, tag) ==
    LET r == InsertEvent(events, eventSeq, start, end, title, description, tag)
        raised == IF locked THEN "OperationalError"
                  ELSE IF r.ok THEN "" ELSE "IntegrityError"
    IN  /\ imported
        /\ raised = "" => eventSeq < MaxEventId
        /\ events' = IF raised = "" THEN r.table ELSE events
        /\ eventSeq' = IF raised = "" THEN eventSeq + 1 ELSE eventSeq
        /\ locked' = (locked \/ raised = "IntegrityError")
        /\ last' = [op |-> "add_event", raised |-> raised,
                    id |-> IF raised = "" THEN eventSeq + 1 ELSE 0]
        /\ UNCHANGED <<schema, legacy, tags, tagSeq, imported>>

\* update_event: an UPDATE that matches no row checks no constraint; one
\* that raises IntegrityError leaves its connection open, as in add_event
UpdateEvent(event_id, start, end, title, description, tag) ==
    LET raised == IF locked THEN "OperationalError"
                  ELSE IF EventRowValid(start, end, title)
                          \/ event_id \notin Ids(events)
                  THEN "" ELSE "IntegrityError"
    IN  /\ imported
        /\ events' = IF raised = ""
                     THEN {IF e.id = event_id
                           THEN Event(e.id, start, end, title, description, tag,
                                      e.created_at)
                           ELSE e : e \in events}
                     ELSE events
        /\ locked' = (locked \/ raised = "IntegrityError")
        /\ last' = [op |-> "update_event", id |-> event_id, raised |-> raised]
        /\ UNCHANGED <<schema, legacy, eventSeq, tags, tagSeq, imported>>

DeleteEvent(event_id) ==
    LET raised == IF locked THEN "OperationalError" ELSE ""
    IN  /\ imported
        /\ events' = IF raised = "" THEN {e \in events : e.id # event_id}
                     ELSE events
        /\ last' = [op |-> "delete_event", id |-> event_id, raised |-> raised]
        /\ UNCHANGED <<schema, legacy, eventSeq, tags, tagSeq, imported,
                       locked>>

GetEventsByDate(date) ==
    /\ imported
    /\ last' = [op |-> "get_events_by_date", date |-> date,
                result |-> get_events_by_date(events, date)]
    /\ UNCHANGED <<schema, legacy, events, eventSeq, tags, tagSeq, imported,
                   locked>>

GetEventsByTag(tag_name) ==
    /\ imported
    /\ last' = [op |-> "get_events_by_tag", tag |-> tag_name,
                result |-> get_events_by_tag(events, tag_name)]
    /\ UNCHANGED <<schema, legacy, events, eventSeq, tags, tagSeq, imported,
                   locked>>

GetTagHoursForWeek(start_date, end_date) ==
    /\ imported
    /\ last' = [op |-> "get_tag_hours_for_week", start_date |-> start_date,
                end_date |-> end_date,
                result |-> get_tag_hours_for_week(events, start_date, end_date)]
    /\ UNCHANGED <<schema, legacy, events, eventSeq, tags, tagSeq, imported,
                   locked>>

\* bulk_add_events rolls back and closes its connection on every path
BulkAddEvents(batch, tag) ==
    LET r == bulk_add_events_run(locked, batch, tag, events, eventSeq)
        p == Persisted(r.snaps, Len(r.snaps) - 1, r.raised = "")
    IN  /\ imported
        /\ eventSeq < MaxEventId
        /\ events' = p.events
        /\ eventSeq' = p.seq
        /\ last' = [op |-> "bulk_add_events", batch |-> batch, tag |-> tag,
                    raised |-> r.raised,
                    result |-> IF r.raised = "" THEN r.imported_count ELSE -1]
        /\ UNCHANGED <<schema, legacy, tags, tagSeq, imported, locked>>

\* init_db, run when the module is imported.  crash: the process stops
\* after `done` of the durable steps, before the next one
InitDb(json, crash, done) ==
    LET r == init_db_run(Store(schema, legacy, events, eventSeq, tags, tagSeq),
                         json)
        n == Len(r.snaps) - 1
        p == r.snaps[(IF crash THEN done ELSE n) + 1]
    IN  /\ crash => (1 <= done /\ done < n)
        /\ ~crash => done = 0
        /\ schema' = p.schema
        /\ legacy' = p.legacy
        /\ events' = p.events
        /\ eventSeq' = p.eventSeq
        /\ tags' = p.tags
        /\ tagSeq' = p.tagSeq
        /\ imported' = IF crash THEN FALSE ELSE (imported \/ r.raised = "")
        /\ locked' = (locked /\ ~crash)
        /\ last' = [op |-> "init_db", raised |-> r.raised, crashed |-> crash,
                    migrated |-> schema.events = "legacy"
                                 /\ p.schema.events = "new"]

\* The garbage collector frees the connections that failed calls left
\* open; their transactions are rolled back and the lock is released
Collect ==
    /\ locked
    /\ locked' = FALSE
    /\ UNCHANGED <<schema, legacy, events, eventSeq, tags, tagSeq, imported,
                   last>>

(***************************************************************************)
(* The tag store and its cascades into events.  A failed add_event leaves  *)
(* the write lock behind; a process that stopped is followed by one that   *)
(* imports the module again.                                               *)
(***************************************************************************)
NoTagsJson == [exists |-> FALSE, tags |-> <<>>]

TagsJsonOptions ==
    {NoTagsJson,
     [exists |-> TRUE, tags |-> <<>>],
     [exists |-> TRUE, tags |-> <<JsonTag("Work", "#007bff", FALSE, 0)>>],
     [exists |-> TRUE, tags |-> <<JsonTag("Home", "#28a745", TRUE, -2)>>],
     [exists |-> TRUE, tags |-> <<JsonTag("Work", "#007bff", TRUE, 1),
                                  JsonTag("Work", "#28a745", TRUE, 2)>>]}

TagNameArgs == {"Work", "Home"}

ColorArgs == {"#000000"}

OrderArgs == {-3, 0}

EventTagArgs == {"Work", "Home"}

ReorderArgs == {<<>>, <<2, 1>>, <<1, 9>>}

Ten == DT(1, 36000)

Noon == DT(1, 43200)

Init == \E json \in TagsJsonOptions : FreshInit(json)

Next ==
    \/ \E n \in TagNameArgs, c \in ColorArgs : AddTag(n, c, FALSE, 0)
    \/ \E i \in 1..MaxTagId, n \in TagNameArgs, c \in ColorArgs,
          crash \in BOOLEAN, done \in 0..2 : UpdateTag(i, n, c, crash, done)
    \/ \E i \in 1..MaxTagId, crash \in BOOLEAN, done \in 0..2 :
           DeleteTag(i, crash, done)
    \/ \E g \in EventTagArgs : AddEvent(Ten, Noon, "t", "", g)
    \/ AddEvent(Ten, Noon, None, "", "Work")
    \/ Collect
    \/ ~imported /\ InitDb(NoTagsJson, FALSE, 0)

Spec == Init /\ [][Next]_vars

(***************************************************************************)
(* The display order of the tags.                                          *)
(***************************************************************************)
NextOrder ==
    \/ \E n \in TagNameArgs, c \in ColorArgs, o \in OrderArgs :
           AddTag(n, c, TRUE, o)
    \/ \E n \in TagNameArgs, c \in ColorArgs : AddTag(n, c, FALSE, 0)
    \/ \E i \in 1..MaxTagId : DeleteTag(i, FALSE, 0)
    \/ \E ids \in ReorderArgs : ReorderTags(ids)
    \/ GetAllTags
    \/ AddEvent(Ten, Noon, None, "", "Work")
    \/ Collect

SpecOrder == Init /\ [][NextOrder]_vars

(***************************************************************************)
(* The date query.  The run starts after init_db and one add_event, whose  *)
(* interval is any pair of the datetimes below; the events added later are *)
(* the two-hour event 2024-06-01 11:00:00 to 13:00:00.  An update_event    *)
(* with title None fails and leaves the write lock behind.                 *)
(***************************************************************************)
MaxDay == 2

Days == 0..MaxDay

Times == {0, 36000, 86399}

DateTimes == {DT(d, t) : d \in Days, t \in Times}

DateTagArgs == {"Work", ""}

Eleven == DT(1, 39600)

One == DT(1, 46800)

\* The state after init_db and add_event(s, e, "t", "", g)
OneEvent(s, e, g) ==
    /\ schema = Schema("new", FALSE, TRUE)
    /\ legacy = {}
    /\ events = InsertEvent({}, 0, s, e, "t", "", g).table
    /\ eventSeq = 1
    /\ tags = CreateDefaultTags
    /\ tagSeq = Cardinality(CreateDefaultTags)
    /\ imported = TRUE
    /\ locked = FALSE
    /\ last = [op |-> "add_event", raised |-> "", id |-> 1]

InitDate ==
    \E s \in DateTimes, e \in DateTimes, g \in DateTagArgs : OneEvent(s, e, g)

NextDate ==
    \/ \E g \in DateTagArgs : AddEvent(Eleven, One, "t", "", g)
    \/ \E i \in 1..MaxEventId, g \in DateTagArgs :
           UpdateEvent(i, Ten, Noon, "t", "", g)
    \/ \E i \in 1..MaxEventId : UpdateEvent(i, Ten, Noon, None, "", "Work")
    \/ \E i \in 1..MaxEventId : DeleteEvent(i)
    \/ \E d \in 0..(MaxDay + 1) : GetEventsByDate(d)
    \/ \E g \in DateTagArgs : GetEventsByTag(g)
    \/ Collect

SpecDate == InitDate /\ [][NextDate]_vars

(***************************************************************************)
(* The weekly aggregation.  The run starts after init_db and one           *)
(* add_event, whose interval is any pair of the datetimes below; the       *)
(* events added later are the two-hour event 2024-06-01 11:00:00 to        *)
(* 13:00:00.                                                               *)
(***************************************************************************)
MaxWeekDay == 2

WeekTimes == {0, 36000, 43200}

WeekDateTimes == {DT(d, t) : d \in 0..MaxWeekDay, t \in WeekTimes}

InitWeek ==
    \E s \in WeekDateTimes, e \in WeekDateTimes, g \in DateTagArgs :
        OneEvent(s, e, g)

NextWeek ==
    \/ \E g \in DateTagArgs : AddEvent(Eleven, One, "t", "", g)
    \/ \E s \in 0..MaxWeekDay, e \in 0..(MaxWeekDay + 1) :
           s < e /\ GetTagHoursForWeek(s, e)

SpecWeek == InitWeek /\ [][NextWeek]_vars

(***************************************************************************)
(* The bulk import.  A record of the batch is complete, lacks its          *)
(* end_datetime, has the empty string as start_datetime, or has title      *)
(* None, which the NOT NULL constraint on title rejects.  Batches are      *)
(* imported between single add_event calls, never two in a row.            *)
(***************************************************************************)
MaxBatch == 4

BulkRecord(title, start, end) ==
    [title |-> title, description |-> Absent,
     start_datetime |-> start, end_datetime |-> end]

RecordArgs ==
    {BulkRecord("t", Ten, Noon), BulkRecord("t", Ten, AbsentDT),
     BulkRecord(Absent, EmptyDT, Noon), BulkRecord(None, Ten, Noon)}

BatchArgs == UNION {[1..n -> RecordArgs] : n \in 0..MaxBatch}

NextBulk ==
    \/ \E b \in BatchArgs :
           last.op # "bulk_add_events" /\ BulkAddEvents(b, "Work")
    \/ \E g \in EventTagArgs : AddEvent(Noon, One, "t", "", g)
    \/ AddEvent(Noon, One, None, "", "Work")
    \/ Collect

SpecBulk == FreshInit(NoTagsJson) /\ [][NextBulk]_vars

(***************************************************************************)
(* The schema migration.  The run starts on a database file of the legacy  *)
(* schema, or on a file without tables; importing the module runs          *)
(* init_db, and a process may stop between two durable steps of it.        *)
(***************************************************************************)
MaxLegacyId == 2

LegacyTimes == {NoneT, EmptyT, HM(0), HM(870), HM(1380), HM(1439)}

LegacyRow(id, date, time) ==
    [id |-> id, date |-> date, time |-> time, title |-> "t",
     description |-> "", created_at |-> "2024-01-01 08:00:00"]

LegacyTables ==
    {{LegacyRow(i, f[i][1], f[i][2]) : i \in ids} :
        f \in [1..MaxLegacyId -> (0..1) \X LegacyTimes],
        ids \in SUBSET (1..MaxLegacyId)}

InitMigrate ==
    /\ \/ schema = Schema("legacy", FALSE, FALSE) /\ legacy \in LegacyTables
       \/ schema = Schema("absent", FALSE, FALSE) /\ legacy = {}
    /\ events = {}
    /\ eventSeq = 0
    /\ tags = {}
    /\ tagSeq = 0
    /\ imported = FALSE
    /\ locked = FALSE
    /\ last = [op |-> "none"]

NextMigrate ==
    \/ \E json \in TagsJsonOptions, crash \in BOOLEAN, done \in 0..4 :
           InitDb(json, crash, done)
    \/ \E g \in EventTagArgs : AddEvent(Ten, Noon, "t", "", g)
    \/ \E d \in 0..2 : GetEventsByDate(d)
    \/ GetAllTags
    \/ AddEvent(Ten, Noon, None, "", "Work")
    \/ Collect

SpecMigrate == InitMigrate /\ [][NextMigrate]_vars

(***************************************************************************)
(* Properties.                                                             *)
(***************************************************************************)
TagNamesUnique ==
    \A t1 \in tags, t2 \in tags : t1.name = t2.name => t1.id = t2.id

DuplicateRejected ==
    /\ last'.op = "add_tag" /\ (\E t \in tags : t.name = last'.name)
           => /\ last'.raised = "DuplicateTag"
              /\ tags' = tags
              /\ events' = events
    /\ last'.op = "update_tag"
       /\ last'.id \in Ids(tags)
       /\ (\E t \in tags : t.name = last'.name /\ t.id # last'.id)
           => /\ last'.raised = "DuplicateTag"
              /\ tags' = tags
              /\ events' = events

\* C1: no two tags ever have the same name; add_tag with a name already
\* present and update_tag to a name used by a different tag fail with
\* DuplicateTag and leave the tags and events tables as they were.
\* (Violated: while the connection left open by a failed add_event or
\* update_event holds the write lock, the duplicate is refused with
\* OperationalError instead; the tables do stay as they were and the names
\* unique.)
C1_DuplicateTag == []TagNamesUnique /\ [][DuplicateRejected]_vars

DeleteTagPost ==
    last'.op = "delete_tag" /\ ~last'.crashed /\ last'.id \in Ids(tags)
        => LET name == Row(tags, last'.id).name
               referencing == {e \in events : e.tag = name}
               listed == get_all_tags(tags')
           IN  /\ last'.raised = ""
               /\ last'.success
               /\ last'.event_count = Cardinality(referencing)
               /\ \A e \in referencing :
                      \E e2 \in events' : e2.id = e.id /\ e2.tag = None
               /\ \A e2 \in events' : e2.tag # name
               /\ \A i \in 1..Len(listed) :
                      listed[i].id # last'.id /\ listed[i].name # name
               /\ Len(listed) = Cardinality(tags) - 1

\* C2: delete_tag(id) of an existing tag referenced by N events returns
\* success with event_count = N; afterwards those events have tag NULL, no
\* event carries the deleted name and get_all_tags no longer lists the tag.
\* (Violated: while the connection left open by a failed add_event or
\* update_event holds the write lock, delete_tag of an existing tag raises
\* OperationalError and the tag stays.)
C2_DeleteTag == [][DeleteTagPost]_vars

RenameCascades ==
    last'.op = "update_tag" /\ last'.id \in Ids(tags)
        => LET old == Row(tags, last'.id).name
               new == Row(tags', last'.id).name
           IN  /\ last'.raised = "" /\ ~last'.crashed => new = last'.name
               /\ new # old
                    => /\ \A e \in events : e.tag = old =>
                              \E e2 \in events' : e2.id = e.id /\ e2.tag = new
                       /\ \A e2 \in events' : e2.tag # old

\* C3: when update_tag changes a tag's name, every event that carried the
\* old name carries the new one and none keeps the old one; the tag row and
\* the events change in one transaction, so no durable state, not even
\* after a stop before the commit, has the tag renamed and an event on the
\* old name.
C3_RenameCascade == [][RenameCascades]_vars

C3_Witness ==
    /\ last.op = "update_tag"
    /\ last.raised = ""
    /\ ~last.crashed
    /\ last.name = "Home"
    /\ last.id \in Ids(tags)
    /\ Row(tags, last.id).name = "Home"
    /\ Cardinality({e \in events : e.tag = "Home"}) = 2
    /\ \A e \in events : e.tag # "Work"

Contains(seq, x) == \E i \in 1..Len(seq) : seq[i] = x

\* C4: an event with start_datetime < end_datetime is returned by
\* get_events_by_date(D) exactly for the dates D with
\* date(start_datetime) <= D <= date(end_datetime).
C4_EventsByDate ==
    \A e \in events, d \in 0..(MaxDay + 1) :
        TextLt(e.start_datetime, e.end_datetime)
            => (Contains(get_events_by_date(events, d), e)
                    <=> (DATE(e.start_datetime) <= d /\ d <= DATE(e.end_datetime)))

C4_Witness ==
    /\ last.op = "get_events_by_date"
    /\ \E i \in 1..Len(last.result) :
           /\ last.result[i] \in events
           /\ DATE(last.result[i].start_datetime) < last.date
           /\ last.date < DATE(last.result[i].end_datetime)

\* The event spans exactly one midnight, ending after it, between two days
\* of the week asked for
SpansMidnightInWeek(e, start_date, end_date) ==
    /\ DATE(e.end_datetime) = DATE(e.start_datetime) + 1
    /\ e.end_datetime.sec > 0
    /\ start_date <= DATE(e.start_datetime)
    /\ DATE(e.end_datetime) < end_date

\* C5: for an event that spans midnight between two adjacent days of the
\* week, the two per-day amounts get_tag_hours_for_week adds for it sum to
\* the event's whole duration, end_datetime - start_datetime in hours.
\* (Stated on an event that is alone under its tag, so that the two amounts
\* are the two entries of the result.)
C5_MidnightSplitSums ==
    last.op = "get_tag_hours_for_week"
        => \A e \in events :
               /\ SpansMidnightInWeek(e, last.start_date, last.end_date)
               /\ \A x \in events : TagKey(x) = TagKey(e) => x = e
               => DblAdd(last.result[DATE(e.start_datetime)][TagKey(e)],
                         last.result[DATE(e.end_datetime)][TagKey(e)])
                    = duration_hours(InstSub(strptime(e.end_datetime),
                                             strptime(e.start_datetime)))

ExampleEvents ==
    /\ Cardinality(events) = 2
    /\ \E e \in events : /\ e.start_datetime = DT(1, 36000)
                         /\ e.end_datetime = DT(1, 43200)
                         /\ e.tag = "Work"
    /\ \E e \in events : /\ e.start_datetime = DT(1, 39600)
                         /\ e.end_datetime = DT(1, 46800)
                         /\ e.tag = "Work"

ExampleQuery ==
    /\ ExampleEvents
    /\ last.op = "get_tag_hours_for_week"
    /\ last.start_date <= 1
    /\ 1 < last.end_date

\* C6 as stated: with exactly the events 2024-06-01 10:00-12:00 and
\* 11:00-13:00, both tagged Work, the week reports 3.0 hours for Work on
\* 2024-06-01.
C6_ExampleThreeHours == ExampleQuery => last.result[1]["Work"] = DblOfInt(3)

\* C6 as amended: the week reports 4.0 hours, each event's two hours
\* counted in full.
C6_ExampleFourHours == ExampleQuery => last.result[1]["Work"] = DblOfInt(4)

C6_Witness == ExampleQuery /\ DOMAIN last.result[1] = {"Work"}

SuppliesBoth(rec) ==
    /\ rec.start_datetime \notin {AbsentDT, NoneDT, EmptyDT}
    /\ rec.end_datetime \notin {AbsentDT, NoneDT, EmptyDT}

BulkCounts ==
    last'.op = "bulk_add_events" /\ last'.raised = ""
        => LET n == Cardinality({i \in 1..Len(last'.batch) :
                                    SuppliesBoth(last'.batch[i])})
           IN  /\ last'.result = n
               /\ events \subseteq events'
               /\ Cardinality(events' \ events) = n
               /\ \A e \in events' \ events :
                      /\ e.id \notin Ids(events)
                      /\ e.tag = last'.tag
                      /\ TruthyDT(e.start_datetime) /\ TruthyDT(e.end_datetime)

\* C7: when no insert fails, bulk_add_events inserts one row for each
\* record that supplies both datetimes, skips the others, and returns the
\* number of rows inserted, by which the events table grows.
C7_BulkCount == [][BulkCounts]_vars

C7_Witness ==
    /\ last.op = "bulk_add_events"
    /\ last.raised = ""
    /\ last.result = 3
    /\ Len(last.batch) = 4
    /\ Cardinality({i \in 1..4 : last.batch[i].end_datetime = AbsentDT}) = 1
    /\ Cardinality({i \in 1..4 : SuppliesBoth(last.batch[i])}) = 3

\* An insert of the batch fails: a record with both datetimes and title
\* None, or any record with both datetimes while the write lock is held
InsertFails(batch, lk) ==
    \E i \in 1..Len(batch) :
        SuppliesBoth(batch[i]) /\ (batch[i].title = None \/ lk)

BulkAllOrNothing ==
    last'.op = "bulk_add_events"
        => /\ InsertFails(last'.batch, locked) <=> last'.raised # ""
           /\ last'.raised # ""
                => /\ events' = events
                   /\ eventSeq' = eventSeq
                   /\ last'.result = -1

\* C8: if an insert of the batch fails, bulk_add_events raises, returns no
\* count, and the events table is as it was before the call, the rows
\* inserted before the failing record included.
C8_BulkAllOrNothing == [][BulkAllOrNothing]_vars

C8_Witness ==
    /\ last.op = "bulk_add_events"
    /\ last.raised = "IntegrityError"
    /\ Len(last.batch) >= 3
    /\ SuppliesBoth(last.batch[1]) /\ last.batch[1].title # None
    /\ SuppliesBoth(last.batch[2]) /\ last.batch[2].title # None
    /\ last.batch[3].title = None
    /\ Cardinality(events) = 1

HasTime(r) == r.time # NoneT /\ r.time # EmptyT

MigratedRow(r, e) ==
    /\ e.id = r.id
    /\ e.created_at = r.created_at
    /\ e.title = r.title
    /\ e.tag = None
    /\ HasTime(r) =>
           /\ e.start_datetime = DT(r.date, r.time.hm * 60)
           /\ e.end_datetime =
                  IF r.time.hm >= 23 * 60
                  THEN DT(r.date + 1, (r.time.hm - 23 * 60) * 60)
                  ELSE DT(r.date, (r.time.hm + 60) * 60)
    /\ ~HasTime(r) =>
           /\ e.start_datetime = DT(r.date, 9 * 3600)
           /\ e.end_datetime = DT(r.date, 17 * 3600)

\* The events table holds exactly the images of the legacy rows
RowsMapped ==
    /\ schema'.events = "new"
    /\ legacy' = {}
    /\ Cardinality(events') = Cardinality(legacy)
    /\ \A r \in legacy :
           \E e \in events' :
               /\ MigratedRow(r, e)
               /\ \A e2 \in events' : e2.id = r.id => e2 = e

\* The legacy rows are where they were and none has been copied
RowsKept ==
    /\ schema'.events # "new"
    /\ legacy' = legacy
    /\ events' = {}

MigrationMapsRows ==
    schema.events = "legacy" /\ last'.op = "init_db"
        => /\ RowsMapped \/ RowsKept
           /\ last'.raised = "" /\ ~last'.crashed => RowsMapped
           /\ last'.raised # "" <=> schema.events_new

\* C9: an init_db that returns maps every legacy row to exactly one row of
\* the new events table with the same id and created_at: a row with a time
\* starts at date + time and ends one hour later (in the next day from
\* 23:00 on), a row without one runs from 09:00:00 to 17:00:00; no row is
\* lost or added and the legacy table is gone.  An init_db that stops or
\* raises leaves every legacy row in place or every row mapped.
C9_Migration == [][MigrationMapsRows]_vars

C9_Witness ==
    /\ last.op = "init_db"
    /\ last.migrated
    /\ ~last.crashed
    /\ schema.events = "new"
    /\ schema.tags
    /\ Cardinality(events) = 2
    /\ \E e \in events : /\ e.start_datetime = DT(0, 82800)
                         /\ e.end_datetime = DT(1, 0)
    /\ \E e \in events : /\ e.start_datetime = DT(1, 32400)
                         /\ e.end_datetime = DT(1, 61200)

Max0(S) == IF S = {} THEN 0 ELSE IF SetMax(S) > 0 THEN SetMax(S) ELSE 0

AppendedOrderAsStated ==
    last'.op = "add_tag" /\ ~last'.hasOrder
    /\ (\A t \in tags : t.name # last'.name)
        => /\ last'.raised = ""
           /\ last'.id \in Ids(tags') \ Ids(tags)
           /\ Row(tags', last'.id).order_index
                  = Max0({t.order_index : t \in tags}) + 1

\* C10: in every state of the tags table, add_tag without order_index and
\* with a fresh name stores the new tag with
\* order_index = max(largest existing order_index, 0) + 1.
\* (Violated: with every order_index negative the new tag gets the largest
\* plus one, which is not positive; and while the connection left open by a
\* failed add_event or update_event holds the write lock, add_tag raises
\* OperationalError and stores nothing.)
C10_OrderMaxZero == [][AppendedOrderAsStated]_vars

=============================================================================
